---- MODULE Spec2Model ----
(***************************************************************************)
(* Task-tracking backend (Express routes over a Postgres store).           *)
(* State: the tasks and categories tables, the clock, and the response of  *)
(* the last request.  One action per route handler; the row triggers and   *)
(* foreign keys of the schema are applied inside the write they belong to. *)
(***************************************************************************)
EXTENDS Integers, Sequences, FiniteSets, TLC

\* ---------------------------------------------------------------- bounds
MaxTasks == 1       \* rows ever inserted into tasks
MaxCats == 2        \* rows ever inserted into categories
MaxTime == 1        \* last instant of the clock (NOW() ranges over 0..MaxTime)
MaxListTasks == 3   \* rows ever inserted into tasks in the runs that list them
MaxCatTasks == 2    \* rows ever inserted into tasks in the runs that manage categories
MaxStatTasks == 3   \* rows ever inserted into tasks in the runs that ask for analytics
MaxClock == 3       \* last instant of the clock in the runs that ask for analytics
TicksPerDay == 2    \* instants of the clock per UTC day
MaxRequests == 2    \* requests handled concurrently

\* ------------------------------------------------------------ value sets
Users == {"u1", "u2"}            \* rows of auth.users (authenticated callers)
Strangers == {"u9"}              \* well-formed uuids that are not in auth.users
UserIds == Users \cup Strangers

Statuses == {"todo", "in_progress", "completed"}
Priorities == {"low", "medium", "high"}

NULL == <<>>                     \* SQL NULL; a present value v is stored as <<v>>
Some(v) == <<v>>

TaskKeys ==
    {"title", "description", "status", "priority", "due_date", "category_id", "assigned_to"}

VARIABLES
    tasks,        \* tasks table: id -> row
    categories,   \* categories table: id -> row
    nextTask,     \* number of task rows inserted so far
    nextCat,      \* number of category rows inserted so far
    now,          \* the clock
    capacity,     \* rows the tasks table may ever hold in this run (fixed by Init)
    resp,         \* response of the last request
    profiles,     \* profiles table: the rows in insertion order
    pending,      \* requests handled concurrently: slot -> position and response
    jobs,         \* scheduled jobs: name -> position and what the last run logged
    digest        \* the running daily digest: its dates, users left, lines logged

vars == <<tasks, categories, nextTask, nextCat, now, capacity, resp,
          profiles, pending, jobs, digest>>

\* ------------------------------------------------------------- responses
\* res.status(code).json({success, error, data}); data holds the ids of the rows
\* returned (their contents are the rows as selected after the write)
NoPagination == [page |-> 0, limit |-> 0, total |-> 0, pages |-> 0]
NoQuery == [none |-> TRUE]
NoStats == [none |-> TRUE]

\* query is the query string a GET response answers, stats the figures of an
\* analytics response
Reply(op, caller, id, code, error, data) ==
    [op |-> op, caller |-> caller, id |-> id, code |-> code, error |-> error, data |-> data,
     pagination |-> NoPagination, query |-> NoQuery, stats |-> NoStats]

NoError == "none"

\* no request is being served: the last response has been sent
NoReply == Reply("none", "none", 0, 0, NoError, <<>>)
Idle == resp = NoReply

\* a free slot of the concurrently handled requests
NoRequest ==
    [op |-> "none", caller |-> "none", pc |-> "free", id |-> 0,
     body |-> [none |-> TRUE], code |-> 0, error |-> NoError, data |-> <<>>]

Slots == 1..MaxRequests
NoPending == [r \in Slots |-> NoRequest]

\* the four cron jobs; none has run yet
JobNames == {"digest", "overdue", "cleanup", "statistics"}
NoJobs == [j \in JobNames |-> [pc |-> "idle", outcome |-> "none", count |-> 0]]
NoDigest == [today |-> 0, queue |-> <<>>, lines |-> <<>>]

\* ---------------------------------------------------------------- schema
\* taskSchemas.create: title required, unknown keys rejected, enums checked
ValidCreate(body) ==
    /\ DOMAIN body \subseteq TaskKeys
    /\ "title" \in DOMAIN body
    /\ body.title # ""
    /\ ("status" \in DOMAIN body => body.status \in Statuses)
    /\ ("priority" \in DOMAIN body => body.priority \in Priorities)

\* taskSchemas.update: every key optional
ValidUpdate(body) ==
    /\ DOMAIN body \subseteq TaskKeys
    /\ ("title" \in DOMAIN body => body.title # "")
    /\ ("status" \in DOMAIN body => body.status \in Statuses)
    /\ ("priority" \in DOMAIN body => body.priority \in Priorities)

\* Joi defaults of taskSchemas.create
WithDefaults(body) ==
    [k \in DOMAIN body \cup {"status", "priority"} |->
        IF k \in DOMAIN body THEN body[k]
        ELSE IF k = "status" THEN "todo" ELSE "medium"]

\* ------------------------------------------------------------ predicates
\* .or(`created_by.eq.${user},assigned_to.eq.${user}`)
Visible(u, t) == t.created_by = u \/ t.assigned_to = Some(u)

\* .eq('created_by', user)
Owned(u, t) == t.created_by = u

\* the category lookup without its .eq('user_id', user)
MutCategoryAnyOwner(u, c) == c \in DOMAIN categories

\* categories: .eq('id', id).eq('user_id', user).single()
CategoryOwnedBy(u, c) == c \in DOMAIN categories /\ categories[c].user_id = u

\* assigned_to without its foreign key
MutUserFkAny(a) == TRUE

\* REFERENCES auth.users(id) on tasks.assigned_to
UserFkOk(a) == a = NULL \/ a[1] \in Users

\* -------------------------------------------------------------- triggers
\* the trigger stamping every update that leaves the row completed
MutStampAlways(old, new) ==
    IF new.status = "completed"
    THEN [new EXCEPT !.completed_at = Some(now)]
    ELSE [new EXCEPT !.completed_at = NULL]

\* set_completed_at(): BEFORE UPDATE ON tasks
set_completed_at(old, new) ==
    IF new.status = "completed" /\ old.status # "completed"
    THEN [new EXCEPT !.completed_at = Some(now)]
    ELSE IF new.status # "completed"
    THEN [new EXCEPT !.completed_at = NULL]
    ELSE new

\* update_updated_at_column(): BEFORE UPDATE ON tasks
update_updated_at_column(new) == [new EXCEPT !.updated_at = now]

\* both BEFORE UPDATE row triggers of tasks, applied to one updated row
BeforeUpdate(old, new) == set_completed_at(old, update_updated_at_column(new))

\* column value of a row after UPDATE ... SET <patch>
Column(row, patch, k) ==
    IF k \notin DOMAIN patch THEN row[k]
    ELSE IF k \in {"description", "due_date", "category_id", "assigned_to"}
    THEN Some(patch[k])
    ELSE patch[k]

\* an update that hands the row over to its new assignee
MutUpdatedRowHandsOver(row, patch) ==
    BeforeUpdate(row, [k \in DOMAIN row |->
                          IF k = "created_by" /\ "assigned_to" \in DOMAIN patch
                          THEN patch.assigned_to
                          ELSE Column(row, patch, k)])

\* supabase.from('tasks').update(patch) on one row, triggers included
UpdatedRow(row, patch) ==
    BeforeUpdate(row, [k \in DOMAIN row |-> Column(row, patch, k)])

\* supabase.from('tasks').insert(taskData): column defaults, no trigger fires
InsertedRow(id, u, data) ==
    [id |-> id,
     title |-> data.title,
     description |-> IF "description" \in DOMAIN data THEN Some(data.description) ELSE NULL,
     status |-> data.status,
     priority |-> data.priority,
     due_date |-> IF "due_date" \in DOMAIN data THEN Some(data.due_date) ELSE NULL,
     completed_at |-> NULL,
     category_id |-> IF "category_id" \in DOMAIN data THEN Some(data.category_id) ELSE NULL,
     created_by |-> u,
     assigned_to |-> IF "assigned_to" \in DOMAIN data THEN Some(data.assigned_to) ELSE NULL,
     created_at |-> now,
     updated_at |-> now]

\* ------------------------------------------------------------------ Init
Init ==
    /\ tasks = <<>>
    /\ categories = <<>>
    /\ nextTask = 0
    /\ nextCat = 0
    /\ now = 0
    /\ capacity = MaxTasks
    /\ resp = NoReply
    /\ profiles = <<>>
    /\ pending = NoPending
    /\ jobs = NoJobs
    /\ digest = NoDigest

\* ----------------------------------------------------------- task routes
\* POST /tasks
CreateTask(u, body) ==
    /\ Idle
    /\ UNCHANGED <<profiles, pending, jobs, digest>>
    /\ UNCHANGED <<categories, nextCat, now, capacity>>
    /\ IF ~ValidCreate(body)
       THEN /\ resp' = Reply("createTask", u, 0, 400, "Validation error", <<>>)
            /\ UNCHANGED <<tasks, nextTask>>
       ELSE LET data == WithDefaults(body) IN
            IF "category_id" \in DOMAIN data /\ ~CategoryOwnedBy(u, data.category_id)
            THEN /\ resp' = Reply("createTask", u, 0, 400, "Invalid category ID", <<>>)
                 /\ UNCHANGED <<tasks, nextTask>>
            ELSE IF "assigned_to" \in DOMAIN data /\ ~UserFkOk(Some(data.assigned_to))
            THEN /\ resp' = Reply("createTask", u, 0, 500, "Failed to create task", <<>>)
                 /\ UNCHANGED <<tasks, nextTask>>
            ELSE /\ nextTask < capacity
                 /\ LET id == nextTask + 1
                        row == InsertedRow(id, u, data)
                    IN /\ tasks' = (id :> row) @@ tasks
                       /\ nextTask' = id
                       /\ resp' = Reply("createTask", u, id, 201, NoError, <<id>>)

\* GET /tasks/:id
GetTask(u, id) ==
    /\ Idle
    /\ UNCHANGED <<profiles, pending, jobs, digest>>
    /\ UNCHANGED <<tasks, categories, nextTask, nextCat, now, capacity>>
    /\ IF id \in DOMAIN tasks /\ Visible(u, tasks[id])
       THEN resp' = Reply("getTask", u, id, 200, NoError, <<id>>)
       ELSE resp' = Reply("getTask", u, id, 404, "Task not found", <<>>)

\* rows an UPDATE of PUT /tasks/:id matches
UpdateFilter(u, t) == Visible(u, t)

\* PUT /tasks/:id
UpdateTask(u, id, body) ==
    /\ Idle
    /\ UNCHANGED <<profiles, pending, jobs, digest>>
    /\ UNCHANGED <<categories, nextTask, nextCat, now, capacity>>
    /\ IF ~ValidUpdate(body)
       THEN /\ resp' = Reply("updateTask", u, id, 400, "Validation error", <<>>)
            /\ UNCHANGED tasks
       ELSE IF "category_id" \in DOMAIN body /\ ~CategoryOwnedBy(u, body.category_id)
       THEN /\ resp' = Reply("updateTask", u, id, 400, "Invalid category ID", <<>>)
            /\ UNCHANGED tasks
       ELSE IF ~(id \in DOMAIN tasks /\ UpdateFilter(u, tasks[id]))
       THEN /\ resp' = Reply("updateTask", u, id, 404, "Task not found", <<>>)
            /\ UNCHANGED tasks
       ELSE IF "assigned_to" \in DOMAIN body /\ ~UserFkOk(Some(body.assigned_to))
       THEN /\ resp' = Reply("updateTask", u, id, 500, "Failed to update task", <<>>)
            /\ UNCHANGED tasks
       ELSE /\ tasks' = [tasks EXCEPT ![id] = UpdatedRow(tasks[id], body)]
            /\ resp' = Reply("updateTask", u, id, 200, NoError, <<id>>)

\* the owner filter written as the read filter
MutOwnerFilterVisible(u, t) == Visible(u, t)

\* rows DELETE /tasks/:id and PATCH /tasks/:id/assign match
OwnerFilter(u, t) == Owned(u, t)

\* DELETE /tasks/:id
DeleteTask(u, id) ==
    /\ Idle
    /\ UNCHANGED <<profiles, pending, jobs, digest>>
    /\ UNCHANGED <<categories, nextTask, nextCat, now, capacity>>
    /\ IF ~(id \in DOMAIN tasks /\ OwnerFilter(u, tasks[id]))
       THEN /\ resp' = Reply("deleteTask", u, id, 404,
                             "Task not found or insufficient permissions", <<>>)
            /\ UNCHANGED tasks
       ELSE /\ tasks' = [i \in DOMAIN tasks \ {id} |-> tasks[i]]
            /\ resp' = Reply("deleteTask", u, id, 200, NoError, <<>>)

\* PATCH /tasks/:id/assign
AssignTask(u, id, a) ==
    /\ Idle
    /\ UNCHANGED <<profiles, pending, jobs, digest>>
    /\ UNCHANGED <<categories, nextTask, nextCat, now, capacity>>
    /\ IF ~(id \in DOMAIN tasks /\ OwnerFilter(u, tasks[id])) \/ ~UserFkOk(Some(a))
       THEN /\ resp' = Reply("assign", u, id, 404,
                             "Task not found or insufficient permissions", <<>>)
            /\ UNCHANGED tasks
       ELSE /\ tasks' = [tasks EXCEPT ![id] = UpdatedRow(tasks[id], [assigned_to |-> a])]
            /\ resp' = Reply("assign", u, id, 200, NoError, <<id>>)

\* the status update without its .or(created_by, assigned_to) filter
MutStatusFilterNone(u, t) == TRUE

\* rows the UPDATE of PATCH /tasks/:id/status matches
StatusFilter(u, t) == Visible(u, t)

\* the route without its check of the status value
MutAllowedStatusAny(s) == TRUE

\* ['todo', 'in_progress', 'completed'].includes(status)
AllowedStatus(s) == s \in {"todo", "in_progress", "completed"}

\* PATCH /tasks/:id/status
SetStatus(u, id, s) ==
    /\ Idle
    /\ UNCHANGED <<profiles, pending, jobs, digest>>
    /\ UNCHANGED <<categories, nextTask, nextCat, now, capacity>>
    /\ IF ~AllowedStatus(s)
       THEN /\ resp' = Reply("setStatus", u, id, 400, "Invalid status value", <<>>)
            /\ UNCHANGED tasks
       ELSE IF ~(id \in DOMAIN tasks /\ StatusFilter(u, tasks[id]))
       THEN /\ resp' = Reply("setStatus", u, id, 404,
                             "Task not found or insufficient permissions", <<>>)
            /\ UNCHANGED tasks
       ELSE /\ tasks' = [tasks EXCEPT ![id] = UpdatedRow(tasks[id], [status |-> s])]
            /\ resp' = Reply("setStatus", u, id, 200, NoError, <<id>>)

\* ------------------------------------------------------------ GET /tasks
MinLimit == 1
MaxLimit == 100
QueryKeys ==
    {"status", "priority", "category_id", "assigned_to", "due_before", "due_after",
     "page", "limit", "sort_by", "sort_order"}
SortColumns == {"created_at", "updated_at", "due_date", "priority", "title"}

\* taskSchemas.query
ValidQuery(q) ==
    /\ DOMAIN q \subseteq QueryKeys
    /\ ("status" \in DOMAIN q => q.status \in Statuses)
    /\ ("priority" \in DOMAIN q => q.priority \in Priorities)
    /\ ("page" \in DOMAIN q => q.page >= 1)
    /\ ("limit" \in DOMAIN q => q.limit >= MinLimit /\ q.limit <= MaxLimit)
    /\ ("sort_by" \in DOMAIN q => q.sort_by \in SortColumns)
    /\ ("sort_order" \in DOMAIN q => q.sort_order \in {"asc", "desc"})

\* Joi defaults of taskSchemas.query
QueryDefault(k) ==
    CASE k = "page" -> 1
      [] k = "limit" -> 10
      [] k = "sort_by" -> "created_at"
      [] k = "sort_order" -> "desc"

WithQueryDefaults(q) ==
    [k \in DOMAIN q \cup {"page", "limit", "sort_by", "sort_order"} |->
        IF k \in DOMAIN q THEN q[k] ELSE QueryDefault(k)]

\* the filters with due_before written as .lt instead of .lte
MutMatchesFiltersStrict(t, q) ==
    /\ ("status" \in DOMAIN q => t.status = q.status)
    /\ ("priority" \in DOMAIN q => t.priority = q.priority)
    /\ ("category_id" \in DOMAIN q => t.category_id = Some(q.category_id))
    /\ ("assigned_to" \in DOMAIN q => t.assigned_to = Some(q.assigned_to))
    /\ ("due_before" \in DOMAIN q => t.due_date # NULL /\ t.due_date[1] < q.due_before)
    /\ ("due_after" \in DOMAIN q => t.due_date # NULL /\ t.due_date[1] >= q.due_after)

\* the .eq / .lte / .gte filters added for the keys the query carries
MatchesFilters(t, q) ==
    /\ ("status" \in DOMAIN q => t.status = q.status)
    /\ ("priority" \in DOMAIN q => t.priority = q.priority)
    /\ ("category_id" \in DOMAIN q => t.category_id = Some(q.category_id))
    /\ ("assigned_to" \in DOMAIN q => t.assigned_to = Some(q.assigned_to))
    /\ ("due_before" \in DOMAIN q => t.due_date # NULL /\ t.due_date[1] <= q.due_before)
    /\ ("due_after" \in DOMAIN q => t.due_date # NULL /\ t.due_date[1] >= q.due_after)

\* ids of the rows the query selects: the visibility filter and every filter
Matching(u, q) ==
    {id \in DOMAIN tasks : Visible(u, tasks[id]) /\ MatchesFilters(tasks[id], q)}

\* collation order of the text values the model uses
TextRank(x) ==
    CASE x = "a" -> 1 [] x = "b" -> 2
      [] x = "high" -> 1 [] x = "low" -> 2 [] x = "medium" -> 3

\* value of the ORDER BY column, NULL when the column is NULL
SortKey(t, col) ==
    CASE col = "created_at" -> Some(t.created_at)
      [] col = "updated_at" -> Some(t.updated_at)
      [] col = "due_date" -> t.due_date
      [] col = "priority" -> Some(TextRank(t.priority))
      [] col = "title" -> Some(TextRank(t.title))

\* Postgres ordering of one column: NULL sorts as larger than every value
KeyLess(a, b) == a # NULL /\ (b = NULL \/ a[1] < b[1])

\* the order with the ascending flag ignored
MutPrecedesAscending(a, b, q) ==
    KeyLess(SortKey(tasks[a], q.sort_by), SortKey(tasks[b], q.sort_by))

\* .order(sort_by, { ascending }): a comes strictly before b
Precedes(a, b, q) ==
    IF q.sort_order = "asc"
    THEN KeyLess(SortKey(tasks[a], q.sort_by), SortKey(tasks[b], q.sort_by))
    ELSE KeyLess(SortKey(tasks[b], q.sort_by), SortKey(tasks[a], q.sort_by))

\* every order ORDER BY <one column> may return the rows in: rows with equal
\* keys come in whatever order the executor produces
Orderings(ids, q) ==
    {s \in [1..Cardinality(ids) -> ids] :
        /\ \A i, j \in 1..Cardinality(ids) : i # j => s[i] # s[j]
        /\ \A i, j \in 1..Cardinality(ids) : i < j => ~Precedes(s[j], s[i], q)}

\* .range(from, to) over the ordered rows
Range(s, from, to) ==
    [i \in 1..(IF to + 1 > Len(s) THEN Len(s) - from ELSE to + 1 - from) |-> s[from + i]]

\* Math.floor in place of Math.ceil
MutCeilFloor(count, limit) == count \div limit

\* Math.ceil(count / limit)
Ceil(count, limit) ==
    IF count % limit = 0 THEN count \div limit ELSE (count \div limit) + 1

ListReply(u, raw, q, code, error, data, total) ==
    [op |-> "listTasks", caller |-> u, id |-> 0, code |-> code, error |-> error,
     data |-> data,
     pagination |-> IF code = 200
                    THEN [page |-> q.page, limit |-> q.limit, total |-> total,
                          pages |-> Ceil(total, q.limit)]
                    ELSE NoPagination,
     query |-> raw, stats |-> NoStats]

\* the responses GET /tasks can give to (u, q) in the current state.  An offset
\* beyond the row count is answered by the store either with no rows or with
\* "range not satisfiable", which the handler reports as a 500.
ListReplies(u, raw) ==
    IF ~ValidQuery(raw)
    THEN {ListReply(u, raw, raw, 400, "Query validation error", <<>>, 0)}
    ELSE LET q == WithQueryDefaults(raw)
             ids == Matching(u, q)
             from == (q.page - 1) * q.limit
             to == from + q.limit - 1
             count == Cardinality(ids)
         IN IF from > count
            THEN {ListReply(u, raw, q, 500, "Failed to fetch tasks", <<>>, count),
                  ListReply(u, raw, q, 200, NoError, <<>>, count)}
            ELSE {ListReply(u, raw, q, 200, NoError, Range(s, from, to), count) :
                     s \in Orderings(ids, q)}

\* GET /tasks
ListTasks(u, q) ==
    /\ Idle
    /\ UNCHANGED <<profiles, pending, jobs, digest>>
    /\ resp' \in ListReplies(u, q)
    /\ UNCHANGED <<tasks, categories, nextTask, nextCat, now, capacity>>

\* ------------------------------------------------------- category routes
\* UNIQUE(name, user_id) on categories, checked for a row written as (name, u)
NameTaken(u, name, except) ==
    \E c \in DOMAIN categories \ except :
        categories[c].name = name /\ categories[c].user_id = u

\* categorySchemas: name of 1..100 characters (required on create), colour
\* matching /^#[0-9A-F]{6}$/i, unknown keys rejected
CategoryKeys == {"name", "description", "color"}
HexColors == {"#6366f1", "#FF5733", "#6b7280"}
DefaultColor == "#6366f1"

ValidCategoryUpdate(body) ==
    /\ DOMAIN body \subseteq CategoryKeys
    /\ "name" \in DOMAIN body => body.name # ""
    /\ "color" \in DOMAIN body => body.color \in HexColors

\* POST /categories
CreateCategory(u, name) ==
    /\ Idle
    /\ UNCHANGED <<profiles, pending, jobs, digest>>
    /\ UNCHANGED <<tasks, nextTask, now, capacity>>
    /\ IF name = ""
       THEN /\ resp' = Reply("createCategory", u, 0, 400, "Validation error", <<>>)
            /\ UNCHANGED <<categories, nextCat>>
       ELSE IF NameTaken(u, name, {})
       THEN /\ resp' = Reply("createCategory", u, 0, 400, "Category name already exists", <<>>)
            /\ UNCHANGED <<categories, nextCat>>
       ELSE /\ nextCat < MaxCats
            /\ LET id == nextCat + 1 IN
               /\ categories' =
                      (id :> [id |-> id, name |-> name, description |-> NULL,
                              color |-> DefaultColor, user_id |-> u,
                              created_at |-> now, updated_at |-> now]) @@ categories
               /\ nextCat' = id
               /\ resp' = Reply("createCategory", u, id, 201, NoError, <<id>>)

\* GET /categories/:id
GetCategory(u, c) ==
    /\ Idle
    /\ UNCHANGED <<profiles, pending, jobs, digest>>
    /\ UNCHANGED <<tasks, categories, nextTask, nextCat, now, capacity>>
    /\ IF CategoryOwnedBy(u, c)
       THEN resp' = Reply("getCategory", u, c, 200, NoError, <<c>>)
       ELSE resp' = Reply("getCategory", u, c, 404, "Category not found", <<>>)

\* the row after UPDATE categories SET <body>, with its BEFORE UPDATE trigger
UpdatedCategory(row, body) ==
    [k \in DOMAIN row |->
        IF k = "updated_at" THEN now
        ELSE IF k \in DOMAIN body
        THEN (IF k = "description" THEN Some(body[k]) ELSE body[k])
        ELSE row[k]]

MutRenameUnchecked(u, c, body) == FALSE

\* the UPDATE of row c by u would break UNIQUE(name, user_id)
RenameCollides(u, c, body) ==
    "name" \in DOMAIN body /\ NameTaken(u, body.name, {c})

\* PUT /categories/:id
UpdateCategory(u, c, body) ==
    /\ Idle
    /\ UNCHANGED <<profiles, pending, jobs, digest>>
    /\ UNCHANGED <<tasks, nextTask, nextCat, now, capacity>>
    /\ IF ~ValidCategoryUpdate(body)
       THEN /\ resp' = Reply("updateCategory", u, c, 400, "Validation error", <<>>)
            /\ UNCHANGED categories
       ELSE IF ~CategoryOwnedBy(u, c)
       THEN /\ resp' = Reply("updateCategory", u, c, 404, "Category not found", <<>>)
            /\ UNCHANGED categories
       ELSE IF RenameCollides(u, c, body)
       THEN /\ resp' = Reply("updateCategory", u, c, 400, "Category name already exists", <<>>)
            /\ UNCHANGED categories
       ELSE /\ categories' = [categories EXCEPT ![c] = UpdatedCategory(categories[c], body)]
            /\ resp' = Reply("updateCategory", u, c, 200, NoError, <<c>>)

\* GET /categories/:id/tasks: the caller's visible tasks of the category, newest first
CategoryTaskReplies(u, c) ==
    IF ~CategoryOwnedBy(u, c)
    THEN {Reply("listCategoryTasks", u, c, 404, "Category not found", <<>>)}
    ELSE LET ids == {i \in DOMAIN tasks : tasks[i].category_id = Some(c) /\ Visible(u, tasks[i])}
             q == [sort_by |-> "created_at", sort_order |-> "desc"]
         IN  {Reply("listCategoryTasks", u, c, 200, NoError, s) : s \in Orderings(ids, q)}

ListCategoryTasks(u, c) ==
    /\ Idle
    /\ UNCHANGED <<profiles, pending, jobs, digest>>
    /\ resp' \in CategoryTaskReplies(u, c)
    /\ UNCHANGED <<tasks, categories, nextTask, nextCat, now, capacity>>

\* the referential action clearing the category of every task
MutSetNullAll(c, t) == BeforeUpdate(t, [t EXCEPT !.category_id = NULL])

\* category_id ... REFERENCES categories(id) ON DELETE SET NULL: the referential
\* action is an UPDATE of the referencing rows, so their row triggers fire
SetNullOnDelete(c, t) ==
    IF t.category_id = Some(c)
    THEN BeforeUpdate(t, [t EXCEPT !.category_id = NULL])
    ELSE t

\* DELETE /categories/:id
DeleteCategory(u, c) ==
    /\ Idle
    /\ UNCHANGED <<profiles, pending, jobs, digest>>
    /\ UNCHANGED <<nextTask, nextCat, now, capacity>>
    /\ resp' = Reply("deleteCategory", u, c, 200, NoError, <<>>)
    /\ IF CategoryOwnedBy(u, c)
       THEN /\ categories' = [i \in DOMAIN categories \ {c} |-> categories[i]]
            /\ tasks' = [i \in DOMAIN tasks |-> SetNullOnDelete(c, tasks[i])]
       ELSE UNCHANGED <<tasks, categories>>

\* the clock advances between requests, up to the instant last
Advance(last) ==
    /\ Idle
    /\ UNCHANGED <<profiles, pending, jobs, digest>>
    /\ now < last
    /\ now' = now + 1
    /\ UNCHANGED <<tasks, categories, nextTask, nextCat, capacity, resp>>

Tick == Advance(MaxTime)

\* res.json(...) is sent; the server takes the next request
Deliver ==
    /\ ~Idle
    /\ UNCHANGED <<profiles, pending, jobs, digest>>
    /\ resp' = NoReply
    /\ UNCHANGED <<tasks, categories, nextTask, nextCat, now, capacity>>

\* ---------------------------------------------------------------- inputs
TaskIds == 1..(capacity + 1)       \* one id more than any row ever gets
CatIds == 1..(MaxCats + 1)
CategoryNames == {"Work"}

\* request bodies of POST /tasks
CreateBodies ==
    {[title |-> "a"], [status |-> "todo"]}
    \cup {[title |-> "a", status |-> s] : s \in Statuses \cup {"invalid_status"}}
    \cup {[title |-> "a", category_id |-> c] : c \in CatIds}
    \cup {[title |-> "a", assigned_to |-> a] : a \in UserIds}
    \cup {[title |-> "a", created_by |-> "u2"]}

\* request bodies of PUT /tasks/:id
UpdateBodies ==
    {[title |-> "b", description |-> "d", priority |-> "high", due_date |-> 1]}
    \cup {[status |-> s] : s \in Statuses \cup {"invalid_status"}}
    \cup {[category_id |-> c] : c \in CatIds}
    \cup {[assigned_to |-> a] : a \in UserIds}
    \cup {[title |-> "b", status |-> "completed"]}
    \cup {[created_by |-> "u2"]}

\* ------------------------------------------------------------------ Next
Next ==
    \/ \E u \in Users, body \in CreateBodies : CreateTask(u, body)
    \/ \E u \in Users, id \in TaskIds : GetTask(u, id)
    \/ \E u \in Users, id \in TaskIds, body \in UpdateBodies : UpdateTask(u, id, body)
    \/ \E u \in Users, id \in TaskIds : DeleteTask(u, id)
    \/ \E u \in Users, id \in TaskIds, a \in UserIds : AssignTask(u, id, a)
    \/ \E u \in Users, id \in TaskIds, s \in Statuses \cup {"invalid_status"} : SetStatus(u, id, s)
    \/ \E u \in Users, name \in CategoryNames : CreateCategory(u, name)
    \/ \E u \in Users, c \in CatIds : DeleteCategory(u, c)
    \/ Tick
    \/ Deliver

Spec == Init /\ [][Next]_vars

\* ------------------------------------------- runs that list the task table
InitList ==
    /\ tasks = <<>>
    /\ categories = <<>>
    /\ nextTask = 0
    /\ nextCat = 0
    /\ now = 0
    /\ capacity = MaxListTasks
    /\ resp = NoReply
    /\ profiles = <<>>
    /\ pending = NoPending
    /\ jobs = NoJobs
    /\ digest = NoDigest

\* request bodies of POST /tasks in the listing runs
ListCreateBodies ==
    {[title |-> "a", priority |-> "high", due_date |-> 0],
     [title |-> "b", status |-> "completed", due_date |-> 1, assigned_to |-> "u2"],
     [title |-> "a", priority |-> "low", category_id |-> 1],
     [title |-> "b"]}

\* query strings of GET /tasks
Filters ==
    {[status |-> "todo"], [priority |-> "high"], [category_id |-> 1], [assigned_to |-> "u2"],
     [due_before |-> 0], [due_after |-> 1], [status |-> "todo", due_before |-> 1]}

Sorts ==
    {[sort_by |-> c, sort_order |-> o] : c \in SortColumns, o \in {"asc", "desc"}}

Pages ==
    {[page |-> p, limit |-> l] : p \in 1..3, l \in 1..2}

\* listings asked page by page: a sort column with and without equal keys,
\* one and two items per page, with and without a filter
PagedQueries ==
    {[sort_by |-> k, sort_order |-> "asc", limit |-> l] :
        k \in {"priority", "title"}, l \in 1..2}
    \cup {[status |-> "todo", sort_by |-> "due_date", limit |-> 1]}

\* the query q asked for page p
AtPage(q, p) == [k \in DOMAIN q \cup {"page"} |-> IF k = "page" THEN p ELSE q[k]]

Queries ==
    Filters \cup Sorts \cup Pages
    \cup {AtPage(q, p) : q \in PagedQueries, p \in 1..(MaxListTasks + 1)}
    \cup {[sort_by |-> "title", sort_order |-> "asc", page |-> p, limit |-> 2] : p \in 1..2}
    \cup {[priority |-> "high", page |-> 1, limit |-> 1, sort_by |-> "due_date"]}
    \cup {[limit |-> 0], [limit |-> 101], [page |-> 0], [sort_by |-> "id"]}

NextList ==
    \/ \E u \in Users, body \in ListCreateBodies : CreateTask(u, body)
    \/ \E u \in Users, q \in Queries : ListTasks(u, q)
    \/ CreateCategory("u1", "Work")
    \/ Tick
    \/ Deliver

SpecList == InitList /\ [][NextList]_vars

\* -------------------------------------- runs that manage the categories
InitCat ==
    /\ tasks = <<>>
    /\ categories = <<>>
    /\ nextTask = 0
    /\ nextCat = 0
    /\ now = 0
    /\ capacity = MaxCatTasks
    /\ resp = NoReply
    /\ profiles = <<>>
    /\ pending = NoPending
    /\ jobs = NoJobs
    /\ digest = NoDigest

\* request bodies of POST /tasks in the category runs
CatCreateBodies ==
    {[title |-> "a"]} \cup {[title |-> "a", category_id |-> c] : c \in 1..MaxCats}

CatNames == {"Work", "Home", ""}

\* request bodies of PUT /categories/:id
CategoryUpdateBodies ==
    {[name |-> n] : n \in CatNames}
    \cup {[name |-> "Home", color |-> "#FF5733", description |-> "d"], [color |-> "red"]}

NextCat ==
    \/ \E body \in CatCreateBodies : CreateTask("u1", body)
    \/ \E u \in Users, name \in CatNames : CreateCategory(u, name)
    \/ \E u \in Users, c \in CatIds : GetCategory(u, c)
    \/ \E u \in Users, c \in CatIds, body \in CategoryUpdateBodies : UpdateCategory(u, c, body)
    \/ \E u \in Users, c \in CatIds : DeleteCategory(u, c)
    \/ \E u \in Users, c \in CatIds : ListCategoryTasks(u, c)
    \/ Tick
    \/ Deliver

SpecCat == InitCat /\ [][NextCat]_vars

\* ------------------------------------------------------- analytics routes
HoursPerDay == 24
HoursPerTick == HoursPerDay \div TicksPerDay

\* date.toISOString().split('T')[0]: the UTC calendar day of an instant
DayOf(t) == t \div TicksPerDay

\* n instants back in place of n days back
MutDaysBeforeTicks(t, n) == t - n

\* date.setDate(date.getDate() - n), the server clock running on UTC
DaysBefore(t, n) == t - n * TicksPerDay

\* Math.round(num / den) for num >= 0, den > 0
MutRoundDown(num, den) == num \div den
RoundHalfUp(num, den) == (2 * num + den) \div (2 * den)

\* Math.round(x * 100) / 100 for x = num / den, in hundredths
Round2(num, den) == RoundHalfUp(num * 100, den)

\* a ratio the response carries unrounded
Ratio(num, den) == [num |-> num, den |-> den]

\* parseInt(period)
ParseInt(str) ==
    CASE str = "0" -> Some(0)
      [] str = "1" -> Some(1)
      [] str = "2" -> Some(2)
      [] str = "7" -> Some(7)
      [] str = "30" -> Some(30)
      [] OTHER -> NULL

\* const { period = <default> } = req.query
PeriodOf(raw, default) == IF "period" \in DOMAIN raw THEN raw.period ELSE default

\* Array.prototype.sort with comparator (a, b) => keys[a] - keys[b]: the
\* indices of keys in ascending order of key, equal keys in index order
RECURSIVE InsertSorted(_, _, _)
InsertSorted(keys, sorted, i) ==
    IF sorted = <<>> THEN <<i>>
    ELSE IF keys[i] < keys[Head(sorted)] THEN <<i>> \o sorted
    ELSE <<Head(sorted)>> \o InsertSorted(keys, Tail(sorted), i)

RECURSIVE SortedPrefix(_, _)
SortedPrefix(keys, n) ==
    IF n = 0 THEN <<>> ELSE InsertSorted(keys, SortedPrefix(keys, n - 1), n)

SortIndices(keys) == SortedPrefix(keys, Len(keys))

\* the orders a SELECT without ORDER BY may return the rows ids in
Enumerations(ids) ==
    {s \in [1..Cardinality(ids) -> ids] :
        \A i, j \in 1..Cardinality(ids) : i # j => s[i] # s[j]}

StatsReply(op, u, raw, code, error, stats) ==
    [Reply(op, u, 0, code, error, <<>>) EXCEPT !.query = raw, !.stats = stats]

\* .or(`created_by.eq.${userId},assigned_to.eq.${userId}`)
VisibleTasks(u) == {i \in DOMAIN tasks : Visible(u, tasks[i])}

MutOverdueAnyStatus(t) == t.due_date # NULL /\ t.due_date[1] < now

\* .lt('due_date', new Date().toISOString()).neq('status', 'completed')
Overdue(t) == t.due_date # NULL /\ t.due_date[1] < now /\ t.status # "completed"

WithStatus(ids, s) == {i \in ids : tasks[i].status = s}

\* GET /analytics/overview
OverviewStats(u) ==
    LET totalCount == Cardinality(VisibleTasks(u))
        completedCount == Cardinality(WithStatus(VisibleTasks(u), "completed"))
        inProgressCount == Cardinality(WithStatus(VisibleTasks(u), "in_progress"))
        todoCount == Cardinality(WithStatus(VisibleTasks(u), "todo"))
        overdueCount == Cardinality({i \in VisibleTasks(u) : Overdue(tasks[i])})
    IN  [total_tasks |-> totalCount,
         completed_tasks |-> completedCount,
         in_progress_tasks |-> inProgressCount,
         todo_tasks |-> todoCount,
         overdue_tasks |-> overdueCount,
         completion_rate |-> IF totalCount > 0 THEN Round2(completedCount * 100, totalCount)
                             ELSE 0]

Overview(u) ==
    /\ Idle
    /\ UNCHANGED <<profiles, pending, jobs, digest>>
    /\ resp' = StatsReply("overview", u, NoQuery, 200, NoError, OverviewStats(u))
    /\ UNCHANGED <<tasks, categories, nextTask, nextCat, now, capacity>>

\* GET /analytics/completion-rates
CompletionRatesReply(u, raw) ==
    LET parsed == ParseInt(PeriodOf(raw, "30")) IN
    IF parsed = NULL
    THEN StatsReply("completionRates", u, raw, 500, "Failed to fetch completion rates", NoStats)
    ELSE
    LET daysAgo == parsed[1]
        startDate == DaysBefore(now, daysAgo)
        completedTasks ==
            {i \in WithStatus(VisibleTasks(u), "completed") :
                tasks[i].completed_at # NULL /\ tasks[i].completed_at[1] >= startDate}
        dateKeys == [i \in 1..daysAgo |-> DayOf(DaysBefore(now, i - 1))]
        dailyCompletions(d) ==
            Cardinality({i \in completedTasks : DayOf(tasks[i].completed_at[1]) = d})
        order == SortIndices(dateKeys)
    IN  StatsReply("completionRates", u, raw, 200, NoError,
            [period_days |-> daysAgo,
             total_completed |-> Cardinality(completedTasks),
             daily_completions |->
                 [k \in 1..daysAgo |->
                     [date |-> dateKeys[order[k]],
                      completed_tasks |-> dailyCompletions(dateKeys[order[k]])]]])

CompletionRates(u, raw) ==
    /\ Idle
    /\ UNCHANGED <<profiles, pending, jobs, digest>>
    /\ resp' = CompletionRatesReply(u, raw)
    /\ UNCHANGED <<tasks, categories, nextTask, nextCat, now, capacity>>

\* GET /analytics/overdue-tasks
OverdueReplies(u) ==
    LET ids == {i \in VisibleTasks(u) : Overdue(tasks[i])}
        q == [sort_by |-> "due_date", sort_order |-> "asc"]
    IN  {StatsReply("overdueTasks", u, NoQuery, 200, NoError,
            [total_overdue |-> Len(s),
             priority_breakdown |->
                 [p \in Priorities |-> Cardinality({k \in 1..Len(s) : tasks[s[k]].priority = p})],
             overdue_tasks |->
                 [k \in 1..Len(s) |->
                     [id |-> s[k],
                      days_overdue |-> (now - tasks[s[k]].due_date[1]) \div TicksPerDay]]]) :
         s \in Orderings(ids, q)}

OverdueTasks(u) ==
    /\ Idle
    /\ UNCHANGED <<profiles, pending, jobs, digest>>
    /\ resp' \in OverdueReplies(u)
    /\ UNCHANGED <<tasks, categories, nextTask, nextCat, now, capacity>>

\* sum of (completed_at - created_at) in hours over the rows ids
RECURSIVE HoursSum(_)
HoursSum(ids) ==
    IF ids = {} THEN 0
    ELSE LET i == CHOOSE x \in ids : TRUE IN
         (tasks[i].completed_at[1] - tasks[i].created_at) * HoursPerTick + HoursSum(ids \ {i})

\* Math.max(completedTasks, 1)
Max(a, b) == IF a > b THEN a ELSE b

\* GET /analytics/productivity
ProductivityReply(u, raw) ==
    LET parsed == ParseInt(PeriodOf(raw, "7")) IN
    IF parsed = NULL
    THEN StatsReply("productivity", u, raw, 500, "Failed to fetch productivity analytics", NoStats)
    ELSE
    LET daysAgo == parsed[1]
        startDate == DaysBefore(now, daysAgo)
        rows == {i \in VisibleTasks(u) : tasks[i].created_at >= startDate}
        createdTasks == Cardinality(rows)
        completedTasks == Cardinality(WithStatus(rows, "completed"))
        timed == {i \in rows : tasks[i].completed_at # NULL}
    IN  StatsReply("productivity", u, raw, 200, NoError,
            [period_days |-> daysAgo,
             tasks_created |-> createdTasks,
             tasks_completed |-> completedTasks,
             completion_rate |-> IF createdTasks > 0 THEN Ratio(completedTasks * 100, createdTasks)
                                 ELSE Ratio(0, 1),
             average_completion_time_hours |-> Round2(HoursSum(timed), Max(completedTasks, 1)),
             priority_performance |->
                 [p \in Priorities |->
                     [created |-> Cardinality({i \in rows : tasks[i].priority = p}),
                      completed |->
                          Cardinality({i \in WithStatus(rows, "completed") : tasks[i].priority = p})]]])

Productivity(u, raw) ==
    /\ Idle
    /\ UNCHANGED <<profiles, pending, jobs, digest>>
    /\ resp' = ProductivityReply(u, raw)
    /\ UNCHANGED <<tasks, categories, nextTask, nextCat, now, capacity>>

\* one entry of GET /analytics/categories over the rows ids
RollupEntry(id, name, color, ids) ==
    [id |-> id, name |-> name, color |-> color,
     total_tasks |-> Cardinality(ids),
     completed_tasks |-> Cardinality(WithStatus(ids, "completed")),
     in_progress_tasks |-> Cardinality(WithStatus(ids, "in_progress")),
     todo_tasks |-> Cardinality(WithStatus(ids, "todo")),
     completion_rate |-> IF Cardinality(ids) > 0
                         THEN Ratio(Cardinality(WithStatus(ids, "completed")) * 100, Cardinality(ids))
                         ELSE Ratio(0, 1)]

\* tasks:tasks(id, status) embedded in a category row
TasksOf(c) == {i \in DOMAIN tasks : tasks[i].category_id = Some(c)}

\* .is('category_id', null) over the caller's visible tasks
Uncategorized(u) == {i \in VisibleTasks(u) : tasks[i].category_id = NULL}

MutUncategorizedAlways(u) == TRUE

\* if (uncategorizedTotal > 0)
HasUncategorized(u) == Cardinality(Uncategorized(u)) > 0

\* GET /analytics/categories
RollupReplies(u) ==
    LET owned == {c \in DOMAIN categories : categories[c].user_id = u}
        pushed == IF HasUncategorized(u)
                  THEN <<RollupEntry(NULL, "Uncategorized", "#6b7280", Uncategorized(u))>>
                  ELSE <<>>
    IN  {LET categoryAnalytics ==
                 [k \in 1..Len(s) |->
                     RollupEntry(Some(s[k]), categories[s[k]].name, categories[s[k]].color,
                                 TasksOf(s[k]))] \o pushed
             order == SortIndices([k \in 1..Len(categoryAnalytics) |->
                                      0 - categoryAnalytics[k].total_tasks])
         IN  StatsReply("categoryRollup", u, NoQuery, 200, NoError,
                 [entries |-> [k \in 1..Len(categoryAnalytics) |-> categoryAnalytics[order[k]]]]) :
         s \in Enumerations(owned)}

CategoryRollup(u) ==
    /\ Idle
    /\ UNCHANGED <<profiles, pending, jobs, digest>>
    /\ resp' \in RollupReplies(u)
    /\ UNCHANGED <<tasks, categories, nextTask, nextCat, now, capacity>>

\* --------------------------------------------- runs that ask for analytics
\* u1 has filed the categories Work and Home
InitStats ==
    /\ tasks = <<>>
    /\ categories =
           (1 :> [id |-> 1, name |-> "Work", description |-> NULL, color |-> DefaultColor,
                  user_id |-> "u1", created_at |-> 0, updated_at |-> 0])
           @@ (2 :> [id |-> 2, name |-> "Home", description |-> NULL, color |-> DefaultColor,
                     user_id |-> "u1", created_at |-> 0, updated_at |-> 0])
    /\ nextTask = 0
    /\ nextCat = 2
    /\ now = 0
    /\ capacity = MaxStatTasks
    /\ resp = NoReply
    /\ profiles = <<>>
    /\ pending = NoPending
    /\ jobs = NoJobs
    /\ digest = NoDigest

\* request bodies of POST /tasks in the analytics runs
StatCreateBodies ==
    {[title |-> "a", status |-> "in_progress", due_date |-> 1, priority |-> "high"],
     [title |-> "a", status |-> "completed", due_date |-> 0, category_id |-> 2],
     [title |-> "a", category_id |-> 1, assigned_to |-> "u2", due_date |-> 0, priority |-> "low"]}

\* query strings of the analytics routes that take a period
PeriodQueries ==
    {[period |-> "1"], [period |-> "2"], [period |-> "week"], [format |-> "json"]}

NextStats ==
    \/ \E body \in StatCreateBodies : CreateTask("u1", body)
    \/ \E id \in TaskIds : SetStatus("u2", id, "completed")
    \/ \E u \in Users : Overview(u)
    \/ \E u \in Users, raw \in PeriodQueries : CompletionRates(u, raw)
    \/ \E u \in Users : OverdueTasks(u)
    \/ \E u \in Users, raw \in PeriodQueries : Productivity(u, raw)
    \/ \E u \in Users : CategoryRollup(u)
    \/ Advance(MaxClock)
    \/ Deliver

SpecStats == InitStats /\ [][NextStats]_vars

\* ======================================================================
\* Properties
\* ======================================================================

\* the request passes every check PUT /tasks/:id makes before it looks the row up
PassesUpdateChecks(u, body) ==
    /\ ValidUpdate(body)
    /\ ("category_id" \in DOMAIN body =>
            /\ body.category_id \in DOMAIN categories
            /\ categories[body.category_id].user_id = u)

IsAssigneeOnly(u, t) == t.assigned_to = Some(u) /\ t.created_by # u
IsOutsider(u, t) == t.assigned_to # Some(u) /\ t.created_by # u

\* C1: every stored task has status = completed if and only if completed_at
\* is set.
C1_CompletedIffCompletedAt ==
    \A id \in DOMAIN tasks :
        (tasks[id].status = "completed") <=> (tasks[id].completed_at # NULL)

\* C2: a PUT /tasks/:id by a user who is the assignee but not the creator is
\* answered 404 and leaves the task as it was.
C2_AssigneeUpdateRejected ==
    [][\A u \in Users, id \in DOMAIN tasks, body \in UpdateBodies :
          (/\ IsAssigneeOnly(u, tasks[id])
           /\ PassesUpdateChecks(u, body)
           /\ UpdateTask(u, id, body))
          => (resp'.code = 404 /\ tasks' = tasks)]_vars

\* C3: DELETE /tasks/:id and PATCH /tasks/:id/assign by a user who is the
\* assignee but not the creator are answered 404; the task still exists and
\* its assigned_to is unchanged.
C3_AssigneeCannotDeleteOrAssign ==
    [][\A u \in Users, id \in DOMAIN tasks :
          (/\ IsAssigneeOnly(u, tasks[id])
           /\ (DeleteTask(u, id) \/ \E a \in UserIds : AssignTask(u, id, a)))
          => (/\ resp'.code = 404
              /\ id \in DOMAIN tasks'
              /\ tasks'[id].assigned_to = tasks[id].assigned_to)]_vars

\* C3 witness: an assignee who is not the creator has just been refused an
\* assign on a task that is still there
C3_Witness ==
    /\ resp.op = "assign"
    /\ resp.code = 404
    /\ resp.id \in DOMAIN tasks
    /\ IsAssigneeOnly(resp.caller, tasks[resp.id])

\* C4 as stated: for a caller who is neither creator nor assignee, get, update,
\* delete and setStatus (with a well-formed body or status) are each answered
\* 404 with no task data and change nothing.
C4_OutsiderAlways404 ==
    [][\A u \in Users, id \in DOMAIN tasks :
          (/\ IsOutsider(u, tasks[id])
           /\ \/ GetTask(u, id)
              \/ DeleteTask(u, id)
              \/ \E s \in Statuses : SetStatus(u, id, s)
              \/ \E body \in UpdateBodies : ValidUpdate(body) /\ UpdateTask(u, id, body))
          => (resp'.code = 404 /\ resp'.data = <<>> /\ tasks' = tasks)]_vars

\* C4 amended: for a caller who is neither creator nor assignee, get, update,
\* delete and setStatus return no task data and change nothing; the answer is
\* 404, except that a request failing validation, or an update whose
\* category_id does not resolve to a category of the caller, is answered 400.
C4_OutsiderRefused ==
    [][\A u \in Users, id \in DOMAIN tasks :
          IsOutsider(u, tasks[id]) =>
          /\ (GetTask(u, id) \/ DeleteTask(u, id))
                => (resp'.code = 404 /\ resp'.data = <<>> /\ tasks' = tasks)
          /\ \A s \in Statuses \cup {"invalid_status"} :
                SetStatus(u, id, s)
                => (/\ resp'.code = IF s \in Statuses THEN 404 ELSE 400
                    /\ resp'.data = <<>>
                    /\ tasks' = tasks)
          /\ \A body \in UpdateBodies :
                UpdateTask(u, id, body)
                => (/\ resp'.code = IF PassesUpdateChecks(u, body) THEN 404 ELSE 400
                    /\ resp'.data = <<>>
                    /\ tasks' = tasks)]_vars

\* C4 witness: an outsider has just been refused an update of an existing task
C4_Witness ==
    /\ resp.op = "updateTask"
    /\ resp.code = 404
    /\ resp.id \in DOMAIN tasks
    /\ IsOutsider(resp.caller, tasks[resp.id])

\* C5: PATCH /tasks/:id/status with a status of the enum, by the creator or the
\* assignee, succeeds; afterwards the task has that status, with completed_at
\* set when it is completed and absent otherwise.
C5_SetStatusStampsCompletion ==
    [][\A u \in Users, id \in DOMAIN tasks, s \in Statuses :
          (/\ (tasks[id].created_by = u \/ tasks[id].assigned_to = Some(u))
           /\ SetStatus(u, id, s))
          => (/\ resp'.code = 200
              /\ tasks'[id].status = s
              /\ (s = "completed" <=> tasks'[id].completed_at # NULL))]_vars

\* C9: POST /tasks with a well-formed body whose category_id does not resolve
\* to a category owned by the caller is answered 400 'Invalid category ID' and
\* inserts nothing.
C9_InvalidCategoryRejected ==
    [][\A u \in Users, body \in CreateBodies :
          (/\ ValidCreate(body)
           /\ "category_id" \in DOMAIN body
           /\ (\/ body.category_id \notin DOMAIN categories
               \/ categories[body.category_id].user_id # u)
           /\ CreateTask(u, body))
          => (/\ resp'.code = 400
              /\ resp'.error = "Invalid category ID"
              /\ tasks' = tasks
              /\ nextTask' = nextTask)]_vars

\* C9 witness: a caller has just been refused with 'Invalid category ID' while
\* the only categories in the store belong to somebody else
C9_Witness ==
    /\ resp.op = "createTask"
    /\ resp.code = 400
    /\ resp.error = "Invalid category ID"
    /\ DOMAIN categories # {}
    /\ \A c \in DOMAIN categories : categories[c].user_id # resp.caller

\* C10: right after a successful POST /tasks or PUT /tasks/:id that carries a
\* category_id, the task's category_id references a category whose owner is
\* the task's created_by.
C10_CategoryOwnedByCreator ==
    [][\A u \in Users, id \in TaskIds, body \in CreateBodies \cup UpdateBodies :
          (/\ "category_id" \in DOMAIN body
           /\ (CreateTask(u, body) \/ UpdateTask(u, id, body))
           /\ resp'.code \in {200, 201})
          => LET t == tasks'[resp'.id] IN
             /\ t.category_id # NULL
             /\ t.category_id[1] \in DOMAIN categories'
             /\ categories'[t.category_id[1]].user_id = t.created_by]_vars

\* the task is visible to u and passes every filter the query string carries
SatisfiesQuery(u, t, q) ==
    /\ (t.created_by = u \/ t.assigned_to = Some(u))
    /\ ("status" \in DOMAIN q => t.status = q.status)
    /\ ("priority" \in DOMAIN q => t.priority = q.priority)
    /\ ("category_id" \in DOMAIN q => t.category_id = Some(q.category_id))
    /\ ("assigned_to" \in DOMAIN q => t.assigned_to = Some(q.assigned_to))
    /\ ("due_before" \in DOMAIN q => t.due_date # NULL /\ t.due_date[1] <= q.due_before)
    /\ ("due_after" \in DOMAIN q => t.due_date # NULL /\ t.due_date[1] >= q.due_after)

\* C6: every item GET /tasks returns is visible to the caller and satisfies
\* every supplied filter, and the counted result set leaves out no visible
\* task that satisfies them all.
C6_ListFilters ==
    (resp.op = "listTasks" /\ resp.code = 200) =>
        /\ \A i \in 1..Len(resp.data) :
              /\ resp.data[i] \in DOMAIN tasks
              /\ SatisfiesQuery(resp.caller, tasks[resp.data[i]], resp.query)
        /\ resp.pagination.total =
              Cardinality({id \in DOMAIN tasks :
                  SatisfiesQuery(resp.caller, tasks[id], resp.query)})

\* C6 witness: a listing filtered by due_before has returned a task due exactly
\* then and left out another task the caller can see
C6_Witness ==
    /\ resp.op = "listTasks"
    /\ resp.code = 200
    /\ "due_before" \in DOMAIN resp.query
    /\ \E i \in 1..Len(resp.data) : tasks[resp.data[i]].due_date = Some(resp.query.due_before)
    /\ resp.pagination.total <
          Cardinality({id \in DOMAIN tasks :
              tasks[id].created_by = resp.caller \/ tasks[id].assigned_to = Some(resp.caller)})

SortOf(q) ==
    [sort_by |-> IF "sort_by" \in DOMAIN q THEN q.sort_by ELSE "created_at",
     sort_order |-> IF "sort_order" \in DOMAIN q THEN q.sort_order ELSE "desc"]

\* the items of a listing come in the order of their sort keys
InSortOrder(data, q) ==
    \A i \in 1..(Len(data) - 1) :
        LET x == SortKey(tasks[data[i]], q.sort_by)
            y == SortKey(tasks[data[i + 1]], q.sort_by)
        IN IF q.sort_order = "asc" THEN ~KeyLess(y, x) ELSE ~KeyLess(x, y)

\* items with equal sort keys come in insertion order (ids are handed out in
\* insertion order)
TiesInInsertionOrder(data, q) ==
    \A i \in 1..(Len(data) - 1) :
        SortKey(tasks[data[i]], q.sort_by) = SortKey(tasks[data[i + 1]], q.sort_by)
        => data[i] < data[i + 1]

UniqueNames ==
    \A c, d \in DOMAIN categories :
        (categories[c].name = categories[d].name
         /\ categories[c].user_id = categories[d].user_id) => c = d

\* C11: after any sequence of category creates and updates no two categories
\* have the same (name, owner); a create or a rename that would make such a
\* pair answers 400 'Category name already exists' and leaves the table as it
\* was; the same name under another owner is accepted.
C11_UniqueNamePerOwner ==
    [][/\ UniqueNames'
       /\ \A u \in Users, n \in CatNames \ {""} :
            CreateCategory(u, n) =>
                IF NameTaken(u, n, {})
                THEN resp'.code = 400 /\ resp'.error = "Category name already exists"
                     /\ categories' = categories
                ELSE resp'.code = 201 /\ resp'.id \in DOMAIN categories'
                     /\ categories'[resp'.id].name = n
                     /\ categories'[resp'.id].user_id = u
       /\ \A u \in Users, c \in CatIds, body \in CategoryUpdateBodies :
            (/\ ValidCategoryUpdate(body)
             /\ CategoryOwnedBy(u, c)
             /\ UpdateCategory(u, c, body)) =>
                IF "name" \in DOMAIN body /\ NameTaken(u, body.name, {c})
                THEN resp'.code = 400 /\ resp'.error = "Category name already exists"
                     /\ categories' = categories
                ELSE resp'.code = 200 /\ categories'[c].user_id = u
                     /\ ("name" \in DOMAIN body => categories'[c].name = body.name)]_vars

\* a rename to a name the owner already uses for another category was refused
C11_Witness ==
    /\ resp.op = "updateCategory" /\ resp.code = 400
    /\ resp.error = "Category name already exists"
    /\ \E c \in DOMAIN categories \ {resp.id} :
        /\ resp.id \in DOMAIN categories
        /\ categories[c].user_id = categories[resp.id].user_id
        /\ categories[c].name # categories[resp.id].name

\* ---------------------------------------------------------------- C12
\* C12 (as stated): a category deleted by its owner takes no task with it: each
\* task that referenced it is still there with category_id absent and every
\* other field as before, and every other task is untouched.
C12_DeleteKeepsTasksExactly ==
    [][\A u \in Users, c \in CatIds :
        (CategoryOwnedBy(u, c) /\ DeleteCategory(u, c)) =>
            /\ c \notin DOMAIN categories'
            /\ DOMAIN tasks' = DOMAIN tasks
            /\ \A i \in DOMAIN tasks :
                IF tasks[i].category_id = Some(c)
                THEN tasks'[i] = [tasks[i] EXCEPT !.category_id = NULL]
                ELSE tasks'[i] = tasks[i]]_vars

\* C12 (amended): as above, except that a task that referenced the category
\* also has its updated_at set to the time of the deletion.
C12_DeleteKeepsTasks ==
    [][\A u \in Users, c \in CatIds :
        (CategoryOwnedBy(u, c) /\ DeleteCategory(u, c)) =>
            /\ c \notin DOMAIN categories'
            /\ DOMAIN tasks' = DOMAIN tasks
            /\ \A i \in DOMAIN tasks :
                IF tasks[i].category_id = Some(c)
                THEN tasks'[i] = [tasks[i] EXCEPT !.category_id = NULL, !.updated_at = now]
                ELSE tasks'[i] = tasks[i]]_vars

\* a category was deleted some time after a task was filed under it, while
\* another task stays filed under another category
C12_Witness ==
    /\ resp.op = "deleteCategory"
    /\ resp.id \notin DOMAIN categories
    /\ \E i, j \in DOMAIN tasks :
        /\ tasks[i].category_id = NULL /\ tasks[i].updated_at > tasks[i].created_at
        /\ tasks[j].category_id # NULL /\ tasks[j].category_id # Some(resp.id)

\* ---------------------------------------------------------------- C13
\* the category route answered not-found and wrote nothing to categories
CategoryNotFound ==
    /\ resp'.code = 404
    /\ resp'.error = "Category not found"
    /\ categories' = categories

\* C13: get, update, delete and list-tasks of a category, asked by a caller who
\* does not own it or for an id that names no category, answer with a
\* not-found error and leave the categories table unchanged.
C13_NonOwnerNotFound ==
    [][\A u \in Users, c \in CatIds :
        ~CategoryOwnedBy(u, c) =>
            /\ GetCategory(u, c) => CategoryNotFound
            /\ \A body \in CategoryUpdateBodies :
                (ValidCategoryUpdate(body) /\ UpdateCategory(u, c, body)) => CategoryNotFound
            /\ DeleteCategory(u, c) => CategoryNotFound
            /\ ListCategoryTasks(u, c) => CategoryNotFound]_vars

\* ---------------------------------------------------------------- C14
\* code and error of the response just sent
Outcome == <<resp'.code, resp'.error>>

\* what each task route answers for an id no row has
AbsentGet == <<404, "Task not found">>
AbsentWrite == <<404, "Task not found or insufficient permissions">>

AbsentUpdate(u, body) ==
    IF ~ValidUpdate(body) THEN <<400, "Validation error">>
    ELSE IF "category_id" \in DOMAIN body /\ ~CategoryOwnedBy(u, body.category_id)
    THEN <<400, "Invalid category ID">>
    ELSE <<404, "Task not found">>

AbsentStatus(s) ==
    IF s \notin Statuses THEN <<400, "Invalid status value">> ELSE AbsentWrite

\* the id names no task, or a task the caller may not read / may not manage
Unreadable(u, id) == id \in DOMAIN tasks => IsOutsider(u, tasks[id])
Unmanageable(u, id) == id \in DOMAIN tasks => ~Owned(u, tasks[id])

\* C14: for get, update, delete, assign and setStatus, for every caller and
\* body, the response (status code and error message) to a request on a task
\* that exists but that the caller has no capability for is the response the
\* same request gets when no such task exists.  Reading and setting the status
\* are capabilities of creator and assignee, the other three of the creator.
C14_ForbiddenLooksAbsent ==
    [][\A u \in Users, id \in TaskIds :
        /\ Unreadable(u, id) =>
            /\ GetTask(u, id) => Outcome = AbsentGet
            /\ \A s \in Statuses \cup {"invalid_status"} :
                SetStatus(u, id, s) => Outcome = AbsentStatus(s)
        /\ Unmanageable(u, id) =>
            /\ \A body \in UpdateBodies :
                UpdateTask(u, id, body) => Outcome = AbsentUpdate(u, body)
            /\ DeleteTask(u, id) => Outcome = AbsentWrite
            /\ \A a \in UserIds : AssignTask(u, id, a) => Outcome = AbsentWrite]_vars

\* ---------------------------------------------------------------- C20
\* C20 (as stated): assign succeeds only when the caller is the task's creator;
\* on success assigned_to becomes u for any user id u, known or not, and every
\* other field of the task is unchanged.
C20_AssignAnyUser ==
    [][\A u \in Users, id \in TaskIds, a \in UserIds :
        AssignTask(u, id, a) =>
            IF id \in DOMAIN tasks /\ Owned(u, tasks[id])
            THEN /\ resp'.code = 200
                 /\ tasks' = [tasks EXCEPT ![id].assigned_to = Some(a)]
            ELSE /\ resp'.code # 200
                 /\ tasks' = tasks]_vars

\* C20 (amended): assign succeeds only when the caller is the task's creator
\* and u is the id of an existing user; on success assigned_to becomes u,
\* updated_at becomes the time of the request and every other field of the
\* task is unchanged; otherwise the answer is 404 and nothing is written.
C20_AssignKnownUser ==
    [][\A u \in Users, id \in TaskIds, a \in UserIds :
        AssignTask(u, id, a) =>
            IF id \in DOMAIN tasks /\ Owned(u, tasks[id]) /\ a \in Users
            THEN /\ resp'.code = 200
                 /\ tasks' = [tasks EXCEPT ![id].assigned_to = Some(a), ![id].updated_at = now]
            ELSE /\ resp'.code = 404
                 /\ tasks' = tasks]_vars

\* the creator assigned the task to someone else some time after creating it
C20_Witness ==
    /\ resp.op = "assign" /\ resp.code = 200
    /\ resp.id \in DOMAIN tasks
    /\ tasks[resp.id].created_by = resp.caller
    /\ tasks[resp.id].assigned_to # NULL
    /\ tasks[resp.id].assigned_to # Some(resp.caller)
    /\ tasks[resp.id].updated_at > tasks[resp.id].created_at

\* ------------------------------------------------------------ analytics
\* tasks the caller of the last request created or is assigned
VisibleTo(u) ==
    {i \in DOMAIN tasks : tasks[i].created_by = u \/ tasks[i].assigned_to = Some(u)}

Abs(x) == IF x < 0 THEN 0 - x ELSE x

\* r hundredths is num / den rounded to two decimals
IsRounded2(r, num, den) == 2 * Abs(r * den - 100 * num) <= den

\* ---------------------------------------------------------------- C15
\* C15: the overview's total, todo, in_progress and completed counts are the
\* numbers of visible tasks in each status, overdue is the number of visible
\* tasks with due_date < now and status other than completed, and
\* completion_rate is completed / total * 100 rounded to two decimals, 0 when
\* there is no visible task.
C15_Overview ==
    resp.op = "overview" =>
        LET mine == VisibleTo(resp.caller)
            st == resp.stats
            n(s) == Cardinality({i \in mine : tasks[i].status = s})
        IN  /\ resp.code = 200
            /\ st.total_tasks = Cardinality(mine)
            /\ st.todo_tasks = n("todo")
            /\ st.in_progress_tasks = n("in_progress")
            /\ st.completed_tasks = n("completed")
            /\ st.overdue_tasks =
                   Cardinality({i \in mine : /\ tasks[i].due_date # NULL
                                             /\ tasks[i].due_date[1] < now
                                             /\ tasks[i].status # "completed"})
            /\ IF mine = {} THEN st.completion_rate = 0
               ELSE IsRounded2(st.completion_rate, 100 * n("completed"), Cardinality(mine))

\* an overview of three visible tasks, one of them completed and one overdue:
\* the rate is 33.33
C15_Witness ==
    /\ resp.op = "overview"
    /\ resp.stats.total_tasks = 3
    /\ resp.stats.completed_tasks = 1
    /\ resp.stats.overdue_tasks >= 1
    /\ resp.stats.completion_rate = 3333

\* ---------------------------------------------------------------- C16
\* C16: the completion-rate series has one bucket per calendar day of the
\* window (the period days ending today), the buckets are strictly ascending
\* by date, and each bucket's count is the number of visible completed tasks
\* whose completed_at falls on that UTC date.
C16_CompletionSeries ==
    (resp.op = "completionRates" /\ resp.code = 200) =>
        LET mine == VisibleTo(resp.caller)
            st == resp.stats
            series == st.daily_completions
            today == DayOf(now)
        IN  /\ st.period_days = ParseInt(PeriodOf(resp.query, "30"))[1]
            /\ Len(series) = st.period_days
            /\ \A k \in 1..Len(series) :
                /\ series[k].date = today - st.period_days + k
                /\ k > 1 => series[k - 1].date < series[k].date
                /\ series[k].completed_tasks =
                       Cardinality({i \in mine : /\ tasks[i].status = "completed"
                                                 /\ tasks[i].completed_at # NULL
                                                 /\ DayOf(tasks[i].completed_at[1]) = series[k].date})

\* a two-day series with completions on both days
C16_Witness ==
    /\ resp.op = "completionRates" /\ resp.code = 200
    /\ Len(resp.stats.daily_completions) = 2
    /\ resp.stats.daily_completions[1].completed_tasks >= 1
    /\ resp.stats.daily_completions[2].completed_tasks >= 1

\* ---------------------------------------------------------------- C17
\* C17: the overdue breakdown lists exactly the visible tasks with
\* due_date < now and status other than completed; each item's days_overdue is
\* floor((now - due_date) / 1 day) and is not negative; the per-priority counts
\* sum to total_overdue.
C17_OverdueBreakdown ==
    resp.op = "overdueTasks" =>
        LET mine == VisibleTo(resp.caller)
            st == resp.stats
            items == st.overdue_tasks
            late == {i \in mine : /\ tasks[i].due_date # NULL
                                  /\ tasks[i].due_date[1] < now
                                  /\ tasks[i].status # "completed"}
        IN  /\ resp.code = 200
            /\ {items[k].id : k \in 1..Len(items)} = late
            /\ Len(items) = Cardinality(late)
            /\ st.total_overdue = Cardinality(late)
            /\ \A k \in 1..Len(items) :
                LET behind == now - tasks[items[k].id].due_date[1] IN
                /\ items[k].days_overdue >= 0
                /\ items[k].days_overdue * TicksPerDay <= behind
                /\ behind < (items[k].days_overdue + 1) * TicksPerDay
            /\ st.priority_breakdown["high"] + st.priority_breakdown["medium"]
                   + st.priority_breakdown["low"] = st.total_overdue

\* a breakdown with a task overdue by less than a day and one by a full day,
\* of different priorities, while a completed task is past its due date
C17_Witness ==
    /\ resp.op = "overdueTasks"
    /\ \E k, l \in 1..Len(resp.stats.overdue_tasks) :
        /\ resp.stats.overdue_tasks[k].days_overdue = 0
        /\ resp.stats.overdue_tasks[l].days_overdue >= 1
    /\ resp.stats.priority_breakdown["high"] >= 1
    /\ resp.stats.priority_breakdown["low"] >= 1
    /\ \E i \in VisibleTo(resp.caller) :
        /\ tasks[i].status = "completed"
        /\ tasks[i].due_date # NULL /\ tasks[i].due_date[1] < now

\* ---------------------------------------------------------------- C18
\* hours between creation and completion, summed over ids
RECURSIVE HoursTaken(_)
HoursTaken(ids) ==
    IF ids = {} THEN 0
    ELSE LET i == CHOOSE x \in ids : TRUE IN
         ((tasks[i].completed_at[1] - tasks[i].created_at) * HoursPerDay) \div TicksPerDay
             + HoursTaken(ids \ {i})

\* C18: in the productivity view tasks_completed is the number of window tasks
\* (visible, created within the period) with status completed, and
\* average_completion_time_hours is the mean of completed_at - created_at in
\* hours over exactly those tasks (to two decimals), 0 when there is none.
C18_AverageCompletionTime ==
    (resp.op = "productivity" /\ resp.code = 200) =>
        LET st == resp.stats
            done == {i \in VisibleTo(resp.caller) :
                        /\ tasks[i].created_at >= now - st.period_days * TicksPerDay
                        /\ tasks[i].status = "completed"}
        IN  /\ st.tasks_completed = Cardinality(done)
            /\ IF done = {} THEN st.average_completion_time_hours = 0
               ELSE /\ \A i \in done : tasks[i].completed_at # NULL
                    /\ IsRounded2(st.average_completion_time_hours,
                                  HoursTaken(done), Cardinality(done))

C29_CreatedByFixed ==
    [][/\ \A id \in DOMAIN tasks \cap DOMAIN tasks' :
            tasks'[id].created_by = tasks[id].created_by
       /\ \A id \in DOMAIN tasks' \ DOMAIN tasks :
            /\ resp'.op = "createTask"
            /\ tasks'[id].created_by = resp'.caller
       /\ \A u \in Users :
            /\ CreateTask(u, [title |-> "a", created_by |-> "u2"]) =>
                   (resp'.code = 400 /\ tasks' = tasks)
            /\ \A id \in TaskIds :
                   UpdateTask(u, id, [created_by |-> "u2"]) =>
                       (resp'.code = 400 /\ tasks' = tasks)]_vars

\* a task edited with success by a user other than its creator
C29_Witness ==
    /\ resp.op \in {"updateTask", "setStatus"}
    /\ resp.code = 200
    /\ resp.id \in DOMAIN tasks
    /\ tasks[resp.id].created_by # resp.caller
    /\ tasks[resp.id].updated_at > tasks[resp.id].created_at

\* ---------------------------------------------------------------- C30
\* C30: setStatus(completed) or an updateTask carrying status completed, with
\* or without other fields, on a task that is already completed leaves
\* completed_at as it was; completed_at of a task changes only in a step that
\* takes its status into completed or away from completed.
C30_ReapplyKeepsCompletedAt ==
    [][/\ \A id \in DOMAIN tasks \cap DOMAIN tasks' :
            tasks'[id].completed_at # tasks[id].completed_at =>
                (tasks[id].status = "completed") # (tasks'[id].status = "completed")
       /\ \A u \in Users, id \in DOMAIN tasks :
            tasks[id].status = "completed" =>
                /\ (SetStatus(u, id, "completed") /\ resp'.code = 200) =>
                       /\ tasks'[id].status = "completed"
                       /\ tasks'[id].completed_at = tasks[id].completed_at
                /\ \A body \in UpdateBodies :
                       (/\ "status" \in DOMAIN body
                        /\ body.status = "completed"
                        /\ UpdateTask(u, id, body)
                        /\ resp'.code = 200) =>
                           /\ tasks'[id].status = "completed"
                           /\ tasks'[id].completed_at = tasks[id].completed_at]_vars

\* completed was applied again, later, to a task completed before
C30_Witness ==
    /\ resp.op \in {"updateTask", "setStatus"}
    /\ resp.code = 200
    /\ resp.id \in DOMAIN tasks
    /\ tasks[resp.id].status = "completed"
    /\ tasks[resp.id].completed_at # NULL
    /\ tasks[resp.id].completed_at[1] < tasks[resp.id].updated_at

\* ---------------------------------------------------------------- C23
\* C23: a request answered with an error (a failed validation such as a status
\* outside the enum or a missing title, an invalid category, not-found or
\* forbidden) leaves the tasks and the categories exactly as they were; a
\* request that fails validation is answered 400 whatever the tables hold.
C23_ErrorsWriteNothing ==
    [][/\ resp'.code >= 400 => (tasks' = tasks /\ categories' = categories)
       /\ \A u \in Users :
            /\ \A body \in {b \in CreateBodies : ~ValidCreate(b)} :
                   CreateTask(u, body) =>
                       (resp'.code = 400 /\ resp'.error = "Validation error")
            /\ \A id \in TaskIds :
                   /\ \A body \in {b \in UpdateBodies : ~ValidUpdate(b)} :
                          UpdateTask(u, id, body) =>
                              (resp'.code = 400 /\ resp'.error = "Validation error")
                   /\ SetStatus(u, id, "invalid_status") =>
                          (resp'.code = 400 /\ resp'.error = "Invalid status value")]_vars

\* a status outside the enum was refused for a task the caller may edit
C23_Witness ==
    /\ resp.op = "setStatus"
    /\ resp.code = 400
    /\ resp.error = "Invalid status value"
    /\ resp.id \in DOMAIN tasks
    /\ tasks[resp.id].created_by = resp.caller
    /\ tasks[resp.id].status \in Statuses

\* ---------------------------------------------------------------- C24
\* the item lists GET /tasks may answer page p of q with
PageData(u, q, p) == {r.data : r \in {x \in ListReplies(u, AtPage(q, p)) : x.code = 200}}

Elems(seq) == {seq[i] : i \in 1..Len(seq)}

\* the tasks u's query q matches, and the number of pages they fill
MatchedBy(u, q) ==
    {id \in DOMAIN tasks : SatisfiesQuery(u, tasks[id], q)}

PagesOf(u, q) ==
    IF Cardinality(MatchedBy(u, q)) % q.limit = 0
    THEN Cardinality(MatchedBy(u, q)) \div q.limit
    ELSE Cardinality(MatchedBy(u, q)) \div q.limit + 1

\* every page 1..pages is answered, with as many distinct matching tasks as
\* its window holds
PagesAreWindows(u, q) ==
    \A p \in 1..PagesOf(u, q) :
        /\ \A r \in ListReplies(u, AtPage(q, p)) : r.code = 200
        /\ \A d \in PageData(u, q, p) :
            /\ Elems(d) \subseteq MatchedBy(u, q)
            /\ Cardinality(Elems(d)) = Len(d)
            /\ Len(d) = IF p * q.limit <= Cardinality(MatchedBy(u, q)) THEN q.limit
                        ELSE Cardinality(MatchedBy(u, q)) - (p - 1) * q.limit

\* whatever the answers to two different pages, they share no task
PagesAreDisjoint(u, q) ==
    \A p1, p2 \in 1..PagesOf(u, q) :
        p1 # p2 =>
            \A d1 \in PageData(u, q, p1), d2 \in PageData(u, q, p2) :
                Elems(d1) \cap Elems(d2) = {}

\* no two matching tasks have the same value in the sort column
DistinctSortKeys(u, q) ==
    \A a, b \in MatchedBy(u, q) :
        a # b => SortKey(tasks[a], q.sort_by) # SortKey(tasks[b], q.sort_by)

\* the first page of a listing asked page by page has been answered
FirstPageAnswered ==
    /\ resp.op = "listTasks"
    /\ resp.code = 200
    /\ resp.query \in {AtPage(q, 1) : q \in PagedQueries}

\* C24: for a fixed state of the store and fixed filters, sort and
\* limit, page p holds the items at positions [(p-1)*limit, (p-1)*limit+limit)
\* of the sorted matching sequence, so that asking for the pages 1..pages
\* returns every matching visible task exactly once.
C24_PagesPartition ==
    FirstPageAnswered =>
        /\ PagesAreWindows(resp.caller, resp.query)
        /\ PagesAreDisjoint(resp.caller, resp.query)

\* what does hold of the pages: every page 1..pages holds as many distinct
\* matching tasks as its window, a page beyond the last, when it is answered,
\* holds none, and the pages 1..pages return every matching task exactly once
\* when no two matching tasks have equal sort keys
PagesPartitionWhenKeysDistinct ==
    FirstPageAnswered =>
        /\ PagesAreWindows(resp.caller, resp.query)
        /\ PageData(resp.caller, resp.query, PagesOf(resp.caller, resp.query) + 1)
               \subseteq {<<>>}
        /\ DistinctSortKeys(resp.caller, resp.query) =>
               PagesAreDisjoint(resp.caller, resp.query)

\* ---------------------------------------------------------------- C27
\* completed_tasks summed over the first n buckets of a series
RECURSIVE BucketSum(_, _)
BucketSum(series, n) ==
    IF n = 0 THEN 0 ELSE series[n].completed_tasks + BucketSum(series, n - 1)

\* C27: in every completion-rate series response total_completed is the sum of
\* completed_tasks over all the daily_completions buckets.
C27_TotalIsSumOfBuckets ==
    (resp.op = "completionRates" /\ resp.code = 200) =>
        resp.stats.total_completed
            = BucketSum(resp.stats.daily_completions, Len(resp.stats.daily_completions))

\* ---------------------------------------------------------------- C28
\* total_tasks summed over the first n entries of a rollup
RECURSIVE TotalSum(_, _)
TotalSum(rows, n) ==
    IF n = 0 THEN 0 ELSE rows[n].total_tasks + TotalSum(rows, n - 1)

\* C28: in the category rollup every task visible to the caller is counted in
\* exactly one entry and no entry counts a task the caller does not see, so
\* the total_tasks of the entries sum to the number of the caller's visible
\* tasks.
C28_RollupCountsVisibleOnce ==
    resp.op = "categoryRollup" =>
        TotalSum(resp.stats.entries, Len(resp.stats.entries))
            = Cardinality(VisibleTo(resp.caller))

\* ------------------------------------------------- GET /auth/profile
\* req.user.user_metadata.full_name || 'User'
FullName(meta) == IF meta = "" THEN "User" ELSE meta

\* PRIMARY KEY of profiles: no row has this id yet
ProfileKeyFree(u) == \A i \in DOMAIN profiles : profiles[i].id # u

\* the row .eq('id', u).single() returns
ProfileOf(u) == CHOOSE i \in DOMAIN profiles : profiles[i].id = u

Done(op, u, code, error, data) ==
    [op |-> op, caller |-> u, pc |-> "done", id |-> 0,
     body |-> [none |-> TRUE], code |-> code, error |-> error, data |-> data]

\* the handler up to its first await: select the caller's row; answer with it,
\* or go on to create it when there is none (PGRST116)
SelectProfile(r, u, meta) ==
    /\ pending[r].pc = "free"
    /\ UNCHANGED <<tasks, categories, nextTask, nextCat, now, capacity, resp,
                   profiles, jobs, digest>>
    /\ IF ProfileKeyFree(u)
       THEN pending' = [pending EXCEPT ![r] =
                [NoRequest EXCEPT !.op = "getProfile", !.caller = u, !.pc = "missing",
                                  !.body = [full_name |-> FullName(meta)]]]
       ELSE pending' = [pending EXCEPT ![r] =
                Done("getProfile", u, 200, NoError, Some(profiles[ProfileOf(u)]))]

\* the rest of the handler: insert the row and answer with it, or answer 500
\* when the insert fails
InsertProfile(r) ==
    /\ pending[r].pc = "missing"
    /\ UNCHANGED <<tasks, categories, nextTask, nextCat, now, capacity, resp,
                   jobs, digest>>
    /\ LET u == pending[r].caller
           row == [id |-> u, full_name |-> pending[r].body.full_name]
       IN IF ProfileKeyFree(u)
          THEN /\ profiles' = Append(profiles, row)
               /\ pending' = [pending EXCEPT ![r] =
                      Done("getProfile", u, 200, NoError, Some(row))]
          ELSE /\ UNCHANGED profiles
               /\ pending' = [pending EXCEPT ![r] =
                      Done("getProfile", u, 500, "Failed to create profile", NULL)]

\* the response of a concurrently handled request reaches its client
Forget(r) ==
    /\ pending[r].pc = "done"
    /\ pending' = [pending EXCEPT ![r] = NoRequest]
    /\ UNCHANGED <<tasks, categories, nextTask, nextCat, now, capacity, resp,
                   profiles, jobs, digest>>

Metadata == {"", "Ann"}

\* two clients fetching profiles at the same time
NextProfile ==
    \/ \E r \in Slots, u \in Users, meta \in Metadata : SelectProfile(r, u, meta)
    \/ \E r \in Slots : InsertProfile(r)
    \/ \E r \in Slots : Forget(r)

SpecProfile == Init /\ [][NextProfile]_vars

\* ---------------------------------------------------------------- C21
\* every user has at most one row in profiles
OneProfilePerUser ==
    \A i, j \in DOMAIN profiles : profiles[i].id = profiles[j].id => i = j

\* C21: profile fetches racing for a user without a profile create at most one
\* row for that user, and every one of them answers 200 with that row.
C21_RacingFetchesSucceed ==
    /\ OneProfilePerUser
    /\ \A r \in Slots :
           (pending[r].op = "getProfile" /\ pending[r].pc = "done") =>
               /\ pending[r].code = 200
               /\ \E i \in DOMAIN profiles : pending[r].data = Some(profiles[i])

\* ------------------------- POST /tasks and PUT /tasks/:id, await by await
\* the foreign key of tasks.category_id written as no constraint
MutCategoryFkAny(c) == TRUE

\* category_id UUID REFERENCES categories(id), checked when the row is written
CategoryFkOk(c) == c = NULL \/ c[1] \in DOMAIN categories

\* category_id of a request body as the column value it is written to
CategoryIn(data) ==
    IF "category_id" \in DOMAIN data THEN Some(data.category_id) ELSE NULL

Checked(op, u, id, data) ==
    [NoRequest EXCEPT !.op = op, !.caller = u, !.pc = "checked", !.id = id, !.body = data]

Answer(op, u, id, code, error, data) ==
    [Done(op, u, code, error, data) EXCEPT !.id = id]

\* POST /tasks up to the insert: validation and the category ownership check
BeginCreateTask(r, u, body) ==
    /\ pending[r].pc = "free"
    /\ UNCHANGED <<tasks, categories, nextTask, nextCat, now, capacity, resp,
                   profiles, jobs, digest>>
    /\ pending' = [pending EXCEPT ![r] =
           IF ~ValidCreate(body)
           THEN Answer("createTask", u, 0, 400, "Validation error", <<>>)
           ELSE LET data == WithDefaults(body) IN
                IF "category_id" \in DOMAIN data /\ ~CategoryOwnedBy(u, data.category_id)
                THEN Answer("createTask", u, 0, 400, "Invalid category ID", <<>>)
                ELSE Checked("createTask", u, 0, data)]

\* POST /tasks from the insert on
InsertTask(r) ==
    /\ pending[r].pc = "checked"
    /\ pending[r].op = "createTask"
    /\ UNCHANGED <<categories, nextCat, now, capacity, resp, profiles, jobs, digest>>
    /\ LET u == pending[r].caller
           data == pending[r].body
       IN IF \/ ~CategoryFkOk(CategoryIn(data))
             \/ "assigned_to" \in DOMAIN data /\ ~UserFkOk(Some(data.assigned_to))
          THEN /\ pending' = [pending EXCEPT ![r] =
                      [Answer("createTask", u, 0, 500, "Failed to create task", <<>>)
                           EXCEPT !.body = data]]
               /\ UNCHANGED <<tasks, nextTask>>
          ELSE /\ nextTask < capacity
               /\ LET id == nextTask + 1
                  IN /\ tasks' = (id :> InsertedRow(id, u, data)) @@ tasks
                     /\ nextTask' = id
                     /\ pending' = [pending EXCEPT ![r] =
                            Answer("createTask", u, id, 201, NoError, <<id>>)]

\* PUT /tasks/:id up to the update: validation and the category ownership check
BeginUpdateTask(r, u, id, body) ==
    /\ pending[r].pc = "free"
    /\ UNCHANGED <<tasks, categories, nextTask, nextCat, now, capacity, resp,
                   profiles, jobs, digest>>
    /\ pending' = [pending EXCEPT ![r] =
           IF ~ValidUpdate(body)
           THEN Answer("updateTask", u, id, 400, "Validation error", <<>>)
           ELSE IF "category_id" \in DOMAIN body /\ ~CategoryOwnedBy(u, body.category_id)
           THEN Answer("updateTask", u, id, 400, "Invalid category ID", <<>>)
           ELSE Checked("updateTask", u, id, body)]

\* PUT /tasks/:id from the update on
WriteTask(r) ==
    /\ pending[r].pc = "checked"
    /\ pending[r].op = "updateTask"
    /\ UNCHANGED <<categories, nextTask, nextCat, now, capacity, resp,
                   profiles, jobs, digest>>
    /\ LET u == pending[r].caller
           id == pending[r].id
           body == pending[r].body
       IN IF ~(id \in DOMAIN tasks /\ UpdateFilter(u, tasks[id]))
          THEN /\ pending' = [pending EXCEPT ![r] =
                      Answer("updateTask", u, id, 404, "Task not found", <<>>)]
               /\ UNCHANGED tasks
          ELSE IF \/ ~CategoryFkOk(CategoryIn(body))
                  \/ "assigned_to" \in DOMAIN body /\ ~UserFkOk(Some(body.assigned_to))
          THEN /\ pending' = [pending EXCEPT ![r] =
                      [Answer("updateTask", u, id, 500, "Failed to update task", <<>>)
                           EXCEPT !.body = body]]
               /\ UNCHANGED tasks
          ELSE /\ tasks' = [tasks EXCEPT ![id] = UpdatedRow(tasks[id], body)]
               /\ pending' = [pending EXCEPT ![r] =
                      Answer("updateTask", u, id, 200, NoError, <<id>>)]

\* request bodies of PUT /tasks/:id in the runs that race with category deletion
RaceUpdateBodies ==
    {[title |-> "b"]} \cup {[category_id |-> c] : c \in 1..MaxCats}

\* task writes handled concurrently with category requests
NextRace ==
    \/ \E r \in Slots, body \in CatCreateBodies : BeginCreateTask(r, "u1", body)
    \/ \E r \in Slots : InsertTask(r)
    \/ \E r \in Slots, id \in 1..MaxCatTasks, body \in RaceUpdateBodies :
           BeginUpdateTask(r, "u1", id, body)
    \/ \E r \in Slots : WriteTask(r)
    \/ \E r \in Slots : Forget(r)
    \/ \E u \in Users, name \in CategoryNames : CreateCategory(u, name)
    \/ \E u \in Users, c \in CatIds : DeleteCategory(u, c)
    \/ Deliver

SpecRace == InitCat /\ [][NextRace]_vars

\* ---------------------------------------------------------------- C26
\* C26: when a category is deleted between the ownership check and the task
\* write of a concurrent create or update, no task ends up referencing a
\* category that does not exist: the write fails or the reference is cleared.
C26_NoDanglingCategory ==
    \A id \in DOMAIN tasks :
        \/ tasks[id].category_id = NULL
        \/ tasks[id].category_id[1] \in DOMAIN categories

\* a create passed the ownership check, its category was deleted, and the
\* insert was refused
C26_Witness ==
    \E r \in Slots :
        /\ pending[r].op = "createTask"
        /\ pending[r].pc = "done"
        /\ pending[r].code = 500
        /\ pending[r].error = "Failed to create task"
        /\ "category_id" \in DOMAIN pending[r].body
        /\ pending[r].body.category_id \notin DOMAIN categories
        /\ \A id \in DOMAIN tasks : tasks[id].category_id # Some(pending[r].body.category_id)

\* ------------------------------------------------------- scheduled jobs
CleanupDays == 30

\* the job's run has ended; what it logged last
Ended(outcome, count) == [pc |-> "idle", outcome |-> outcome, count |-> count]

\* a cron callback fires: it logs and calls the job, which reads the clock
\* before its first await
Trigger(j) ==
    /\ jobs[j].pc = "idle"
    /\ jobs' = [jobs EXCEPT ![j].pc = "running"]
    /\ digest' = IF j = "digest"
                 THEN [today |-> now, queue |-> <<>>, lines |-> <<>>]
                 ELSE digest
    /\ UNCHANGED <<tasks, categories, nextTask, nextCat, now, capacity, resp,
                   profiles, pending>>

\* generateDailyDigest: the select on profiles; an error ends the run in the
\* outer catch
DigestUsers(ok) ==
    /\ jobs["digest"].pc = "running"
    /\ UNCHANGED <<tasks, categories, nextTask, nextCat, now, capacity, resp,
                   profiles, pending>>
    /\ IF ok
       THEN /\ \E s \in Enumerations(DOMAIN profiles) :
                   digest' = [digest EXCEPT !.queue = [i \in DOMAIN s |-> profiles[s[i]].id]]
            /\ jobs' = [jobs EXCEPT !["digest"].pc = "loop"]
       ELSE /\ jobs' = [jobs EXCEPT !["digest"] = Ended("failed", 0)]
            /\ UNCHANGED digest

\* the line logged for one user of the digest
DigestLine(u) ==
    LET today == digest.today
        yesterday == DaysBefore(today, 1)
        mine == VisibleTasks(u)
    IN  [user_id |-> u,
         outcome |-> "digest",
         completed_yesterday |-> Cardinality({i \in mine :
             /\ tasks[i].status = "completed"
             /\ tasks[i].completed_at # NULL
             /\ tasks[i].completed_at[1] >= yesterday
             /\ tasks[i].completed_at[1] < today}),
         overdue_tasks |-> Cardinality({i \in mine :
             /\ tasks[i].due_date # NULL
             /\ tasks[i].due_date[1] < today
             /\ tasks[i].status # "completed"}),
         due_today |-> Cardinality({i \in mine :
             /\ tasks[i].due_date # NULL
             /\ DayOf(tasks[i].due_date[1]) = DayOf(today)
             /\ tasks[i].status # "completed"})]

ErrorLine(u) ==
    [user_id |-> u, outcome |-> "error",
     completed_yesterday |-> 0, overdue_tasks |-> 0, due_today |-> 0]

\* the loop gives up at the first user whose queries fail
MutAbortLoop(queue) == <<>>

\* the users the loop goes on with after one user, whether the user's queries
\* failed (continue, or the inner catch) or not
Remaining(queue) == Tail(queue)

\* one iteration of the loop over the users
DigestUser(ok) ==
    /\ jobs["digest"].pc = "loop"
    /\ digest.queue # <<>>
    /\ LET u == Head(digest.queue)
       IN digest' = [digest EXCEPT
              !.lines = Append(@, IF ok THEN DigestLine(u) ELSE ErrorLine(u)),
              !.queue = IF ok THEN Tail(@) ELSE Remaining(@)]
    /\ UNCHANGED <<tasks, categories, nextTask, nextCat, now, capacity, resp,
                   profiles, pending, jobs>>

\* the loop is over: 'Daily digest generation completed'
DigestDone ==
    /\ jobs["digest"].pc = "loop"
    /\ digest.queue = <<>>
    /\ jobs' = [jobs EXCEPT !["digest"] = Ended("completed", 0)]
    /\ UNCHANGED <<tasks, categories, nextTask, nextCat, now, capacity, resp,
                   profiles, pending, digest>>

\* checkOverdueTasks
CheckOverdueTasks(ok) ==
    /\ jobs["overdue"].pc = "running"
    /\ jobs' = [jobs EXCEPT !["overdue"] =
           IF ok
           THEN Ended("completed", Cardinality({i \in DOMAIN tasks : Overdue(tasks[i])}))
           ELSE Ended("failed", 0)]
    /\ UNCHANGED <<tasks, categories, nextTask, nextCat, now, capacity, resp,
                   profiles, pending, digest>>

\* completed tasks older than thirty days
OldTasks ==
    {i \in DOMAIN tasks :
        /\ tasks[i].status = "completed"
        /\ tasks[i].completed_at # NULL
        /\ tasks[i].completed_at[1] < DaysBefore(now, CleanupDays)}

\* the tasks table were the cleanup to delete the rows it finds
MutCleanupDeletes(old) == [i \in DOMAIN tasks \ old |-> tasks[i]]

\* the tasks table after the cleanup has found the rows old: they are counted
\* in the log and nothing else is done with them
CleanedUp(old) == tasks

\* cleanupCompletedTasks
CleanupCompletedTasks(ok) ==
    /\ jobs["cleanup"].pc = "running"
    /\ IF ok
       THEN /\ jobs' = [jobs EXCEPT !["cleanup"] = Ended("completed", Cardinality(OldTasks))]
            /\ tasks' = CleanedUp(OldTasks)
       ELSE /\ jobs' = [jobs EXCEPT !["cleanup"] = Ended("failed", 0)]
            /\ UNCHANGED tasks
    /\ UNCHANGED <<categories, nextTask, nextCat, now, capacity, resp,
                   profiles, pending, digest>>

\* updateTaskStatistics
UpdateTaskStatistics(ok) ==
    /\ jobs["statistics"].pc = "running"
    /\ jobs' = [jobs EXCEPT !["statistics"] =
           IF ok
           THEN Ended("completed", Cardinality({i \in DOMAIN tasks : tasks[i].status # "deleted"}))
           ELSE Ended("failed", 0)]
    /\ UNCHANGED <<tasks, categories, nextTask, nextCat, now, capacity, resp,
                   profiles, pending, digest>>

\* the first instant of the runs of the jobs: a month and a day of history
JobEpoch == (CleanupDays + 1) * TicksPerDay

JobRow(id, status, due, done, assignee, created) ==
    [id |-> id, title |-> "a", description |-> NULL, status |-> status,
     priority |-> "medium", due_date |-> due, completed_at |-> done,
     category_id |-> NULL, created_by |-> "u1", assigned_to |-> assignee,
     created_at |-> created, updated_at |-> IF done = NULL THEN created ELSE done[1]]

\* both users have a profile; u1 has a task completed a month ago, an open
\* task due yesterday that is assigned to u2, and an open task without due date
InitJobs ==
    /\ tasks = <<JobRow(1, "completed", NULL, Some(0), NULL, 0),
                 JobRow(2, "todo", Some(JobEpoch - TicksPerDay), NULL, Some("u2"), JobEpoch - TicksPerDay),
                 JobRow(3, "in_progress", NULL, NULL, NULL, JobEpoch)>>
    /\ categories = <<>>
    /\ nextTask = 3
    /\ nextCat = 0
    /\ now = JobEpoch
    /\ capacity = 3
    /\ resp = NoReply
    /\ profiles = <<[id |-> "u1", full_name |-> "User"], [id |-> "u2", full_name |-> "Ann"]>>
    /\ pending = NoPending
    /\ jobs = NoJobs
    /\ digest = NoDigest

NextJobs ==
    \/ \E j \in JobNames : Trigger(j)
    \/ \E ok \in BOOLEAN : DigestUsers(ok)
    \/ \E ok \in BOOLEAN : DigestUser(ok)
    \/ DigestDone
    \/ \E ok \in BOOLEAN : CheckOverdueTasks(ok)
    \/ \E ok \in BOOLEAN : CleanupCompletedTasks(ok)
    \/ \E ok \in BOOLEAN : UpdateTaskStatistics(ok)
    \/ Advance(JobEpoch + 1)

SpecJobs == InitJobs /\ [][NextJobs]_vars

\* cron keeps firing every schedule, and the event loop resumes each job
\* that awaits a query
SpecJobsFair ==
    /\ SpecJobs
    /\ \A j \in JobNames : WF_vars(Trigger(j))
    /\ WF_vars(\E ok \in BOOLEAN : DigestUsers(ok))
    /\ WF_vars(\E ok \in BOOLEAN : DigestUser(ok))
    /\ WF_vars(DigestDone)
    /\ WF_vars(\E ok \in BOOLEAN : CheckOverdueTasks(ok))
    /\ WF_vars(\E ok \in BOOLEAN : CleanupCompletedTasks(ok))
    /\ WF_vars(\E ok \in BOOLEAN : UpdateTaskStatistics(ok))

\* ---------------------------------------------------------------- C25
\* C25: no step of a scheduled job changes the tasks, categories or profiles
\* tables; in particular the cleanup leaves every old completed task it finds
\* in the table.
C25_JobsWriteNothing ==
    [][/\ (jobs' # jobs \/ digest' # digest) =>
              (tasks' = tasks /\ categories' = categories /\ profiles' = profiles)
       /\ \A ok \in BOOLEAN :
              CleanupCompletedTasks(ok) =>
                  \A i \in OldTasks : i \in DOMAIN tasks' /\ tasks'[i] = tasks[i]]_vars

\* the cleanup has run to its end and logged an old completed task, which is
\* still in the table
C25_Witness ==
    /\ jobs["cleanup"].outcome = "completed"
    /\ jobs["cleanup"].count > 0
    /\ OldTasks # {}

\* ---------------------------------------------------------------- C22
\* the users a digest run has logged a line for, digest or error
Handled == {digest.lines[i].user_id : i \in DOMAIN digest.lines}

\* the users the running digest has still to go through
Queued == {digest.queue[i] : i \in DOMAIN digest.queue}

\* C22: a failure in a run of a scheduled job ends that run without a retry
\* (a run starts only when cron fires, and the digest logs one line per user
\* at most) and does not prevent later triggers (after a failed run the job
\* runs again); in a digest run a failure for one user does not stop the
\* loop: no step of the loop drops a user, and every user still in the queue
\* gets their line, digest or error.
C22_FailuresAreContained ==
    /\ [][\A j \in JobNames :
              (jobs[j].pc = "idle" /\ jobs'[j].pc # "idle") => Trigger(j)]_vars
    /\ [](\A i, k \in DOMAIN digest.lines :
              digest.lines[i].user_id = digest.lines[k].user_id => i = k)
    /\ \A j \in JobNames :
           (jobs[j].pc = "idle" /\ jobs[j].outcome = "failed") ~> (jobs[j].pc = "running")
    /\ [][(jobs["digest"].pc = "loop" /\ jobs'["digest"].pc = "loop") =>
              Handled' \cup Queued' = Handled \cup Queued]_vars
    /\ \A u \in Users :
           (jobs["digest"].pc = "loop" /\ u \in Queued) ~> (u \in Handled)

\* a digest run logged an error for one user and then the digest of the next,
\* while the cleanup, whose last run failed, is running again
C22_Witness ==
    /\ Len(digest.lines) = 2
    /\ digest.lines[1].outcome = "error"
    /\ digest.lines[2].outcome = "digest"
    /\ jobs["cleanup"].outcome = "failed"
    /\ jobs["cleanup"].pc = "running"
====
